---- MODULE Spec2Model ----
(***************************************************************************)
(* The chess rules engine of src/chess/board.py and src/chess/pieces/*.py  *)
(* as a state machine.  The state is the Board object: the 8x8 grid of     *)
(* squares, each holding a piece reference or None, the per-piece          *)
(* has_moved attribute, current_player, last_move, the selection, the      *)
(* valid_moves list and the two capture lists.  The one handler is         *)
(* Board.handle_click; the specification SpecQuery adds calls of the       *)
(* Board's query methods between moves, SpecMoves calls of the pieces'     *)
(* movement generators.                                                    *)
(*                                                                         *)
(* Piece objects are the integers 1..32 (their name and color never        *)
(* change, so they are tables indexed by the object); a square holds one   *)
(* of them or None.  Positions are <<row, col>> pairs, 0-based as in the   *)
(* code.  Lists the code only tests membership on or iterates in order     *)
(* are sequences built in the code's order.  Highlights, the print calls   *)
(* and the write-only list enpassant_move are rendering or logging and     *)
(* are left out.                                                           *)
(*                                                                         *)
(* Methods that write the grid while they compute (_is_move_legal and      *)
(* everything that calls it) return the grid they leave behind next to     *)
(* their result, and every caller continues on that grid.                  *)
(***************************************************************************)
EXTENDS Integers, Sequences, FiniteSets, TLC

\* ---------------------------------------------------------------- constants
BOARD_SIZE == 8
SQUARE_SIZE == 80

None == 0

Rows == 0 .. (BOARD_SIZE - 1)
Cols == 0 .. (BOARD_SIZE - 1)
Positions == Rows \X Cols

\* ------------------------------------------------------------ piece objects
\* Objects created by Board._setup_pieces: 1..8 black back rank (columns
\* 0..7), 9..16 black pawns, 17..24 white pawns, 25..32 white back rank.
BackRank == <<"rook", "knight", "bishop", "queen", "king", "bishop", "knight", "rook">>

Pieces == 1 .. 32

PieceName(p) ==
    IF p <= 8 THEN BackRank[p]
    ELSE IF p <= 24 THEN "pawn"
    ELSE BackRank[p - 24]

PieceColor(p) == IF p <= 16 THEN "black" ELSE "white"

\* The objects that carry a has_moved attribute (Pawn, King, and Rook).
HasMovedPieces == {p \in Pieces : PieceName(p) \in {"pawn", "king", "rook"}}

_setup_pieces ==
    [row \in Rows |-> [col \in Cols |->
        IF row = 0 THEN col + 1
        ELSE IF row = 1 THEN col + 9
        ELSE IF row = 6 THEN col + 17
        ELSE IF row = 7 THEN col + 25
        ELSE None]]

\* Square.is_empty
is_empty(b, row, col) == b[row][col] = None

OnBoard(row, col) == 0 <= row /\ row < 8 /\ 0 <= col /\ col < 8

NoMoves == [moves |-> <<>>, capture_moves |-> <<>>]

Range(s) == {s[i] : i \in DOMAIN s}

\* F applied to the value x.
Let(x, F(_)) == F(x)

\* ------------------------------------------------------ movement generators
\* A variant of Ray that stops at a piece of the other color only and passes
\* over the pieces of its own color.
RECURSIVE Ray_over_own_pieces(_, _, _, _, _, _)
Ray_over_own_pieces(b, color, row, col, direction, distance) ==
    IF distance >= 8 THEN NoMoves
    ELSE
        LET new_row == row + direction[1] * distance
            new_col == col + direction[2] * distance
        IN  IF ~OnBoard(new_row, new_col) THEN NoMoves
            ELSE IF is_empty(b, new_row, new_col) THEN
                LET rest == Ray_over_own_pieces(b, color, row, col, direction, distance + 1)
                IN  [moves |-> <<<<new_row, new_col>>>> \o rest.moves,
                     capture_moves |-> rest.capture_moves]
            ELSE IF PieceColor(b[new_row][new_col]) # color THEN
                [moves |-> <<>>, capture_moves |-> <<<<new_row, new_col>>>>]
            ELSE Ray_over_own_pieces(b, color, row, col, direction, distance + 1)

\* One ray of Bishop / Queen / Rook: distance 1..7 until the edge or the
\* first occupied square.
RECURSIVE Ray(_, _, _, _, _, _)
Ray(b, color, row, col, direction, distance) ==
    IF distance >= 8 THEN NoMoves
    ELSE
        LET new_row == row + direction[1] * distance
            new_col == col + direction[2] * distance
        IN  IF ~OnBoard(new_row, new_col) THEN NoMoves
            ELSE IF is_empty(b, new_row, new_col) THEN
                LET rest == Ray(b, color, row, col, direction, distance + 1)
                IN  [moves |-> <<<<new_row, new_col>>>> \o rest.moves,
                     capture_moves |-> rest.capture_moves]
            ELSE IF PieceColor(b[new_row][new_col]) # color THEN
                [moves |-> <<>>, capture_moves |-> <<<<new_row, new_col>>>>]
            ELSE NoMoves

\* The loop over directions shared by the ray pieces.
RECURSIVE Rays(_, _, _, _, _, _)
Rays(b, color, row, col, directions, i) ==
    IF i > Len(directions) THEN NoMoves
    ELSE
        Let(Ray(b, color, row, col, directions[i], 1), LAMBDA one :
        Let(Rays(b, color, row, col, directions, i + 1), LAMBDA rest :
            [moves |-> one.moves \o rest.moves,
             capture_moves |-> one.capture_moves \o rest.capture_moves]))

\* A variant of Steps that returns every occupied target square as a capture,
\* whatever the color of its piece.
RECURSIVE Steps_captures_any(_, _, _, _, _, _)
Steps_captures_any(b, color, row, col, offsets, i) ==
    IF i > Len(offsets) THEN NoMoves
    ELSE
        LET new_row == row + offsets[i][1]
            new_col == col + offsets[i][2]
            rest == Steps_captures_any(b, color, row, col, offsets, i + 1)
        IN  IF ~OnBoard(new_row, new_col) THEN rest
            ELSE IF is_empty(b, new_row, new_col) THEN
                [moves |-> <<<<new_row, new_col>>>> \o rest.moves,
                 capture_moves |-> rest.capture_moves]
            ELSE [moves |-> rest.moves,
                  capture_moves |-> <<<<new_row, new_col>>>> \o rest.capture_moves]

\* The loop over fixed offsets shared by Knight and King.
RECURSIVE Steps(_, _, _, _, _, _)
Steps(b, color, row, col, offsets, i) ==
    IF i > Len(offsets) THEN NoMoves
    ELSE
        LET new_row == row + offsets[i][1]
            new_col == col + offsets[i][2]
            rest == Steps(b, color, row, col, offsets, i + 1)
        IN  IF ~OnBoard(new_row, new_col) THEN rest
            ELSE IF is_empty(b, new_row, new_col) THEN
                [moves |-> <<<<new_row, new_col>>>> \o rest.moves,
                 capture_moves |-> rest.capture_moves]
            ELSE IF PieceColor(b[new_row][new_col]) # color THEN
                [moves |-> rest.moves,
                 capture_moves |-> <<<<new_row, new_col>>>> \o rest.capture_moves]
            ELSE rest

BishopDirections == <<<<-1, -1>>, <<-1, 1>>, <<1, -1>>, <<1, 1>>>>

Bishop_get_valid_moves(b, color, row, col) ==
    Rays(b, color, row, col, BishopDirections, 1)

\* A variant of QueenDirections without the last diagonal.
QueenDirections_without_last ==
    <<<<-1, 0>>, <<1, 0>>, <<0, -1>>, <<0, 1>>,
      <<-1, -1>>, <<-1, 1>>, <<1, -1>>>>

QueenDirections ==
    <<<<-1, 0>>, <<1, 0>>, <<0, -1>>, <<0, 1>>,
      <<-1, -1>>, <<-1, 1>>, <<1, -1>>, <<1, 1>>>>

Queen_get_valid_moves(b, color, row, col) ==
    Rays(b, color, row, col, QueenDirections, 1)

\* chess/pieces/rook.py is imported by Board._setup_pieces but is not among
\* the sources; the rook walks the four orthogonal rays like the bishop.
RookDirections == <<<<-1, 0>>, <<1, 0>>, <<0, -1>>, <<0, 1>>>>

Rook_get_valid_moves(b, color, row, col) ==
    Rays(b, color, row, col, RookDirections, 1)

KnightOffsets ==
    <<<<-2, -1>>, <<-2, 1>>, <<-1, -2>>, <<-1, 2>>,
      <<1, -2>>, <<1, 2>>, <<2, -1>>, <<2, 1>>>>

Knight_get_valid_moves(b, color, row, col) ==
    Steps(b, color, row, col, KnightOffsets, 1)

KingOffsets ==
    <<<<-1, -1>>, <<-1, 0>>, <<-1, 1>>, <<0, -1>>,
      <<0, 1>>, <<1, -1>>, <<1, 0>>, <<1, 1>>>>

King_get_valid_moves(b, color, row, col) ==
    Steps(b, color, row, col, KingOffsets, 1)

PawnCaptures(b, color, new_row, capture_cols) ==
    SelectSeq(
        [i \in 1 .. 2 |-> <<new_row, capture_cols[i]>>],
        LAMBDA sq :
            /\ 0 <= sq[2] /\ sq[2] < 8 /\ 0 <= new_row /\ new_row < 8
            /\ ~is_empty(b, sq[1], sq[2])
            /\ PieceColor(b[sq[1]][sq[2]]) # color)

\* A variant of Pawn_get_valid_moves whose double step does not look at the
\* square passed over.
Pawn_get_valid_moves_jumps(b, has_moved, color, row, col) ==
    LET direction == IF color = "white" THEN -1 ELSE 1
        new_row == row + direction
        double_row == row + 2 * direction
        single ==
            IF 0 <= new_row /\ new_row < 8 /\ is_empty(b, new_row, col)
            THEN <<<<new_row, col>>>> ELSE <<>>
        double ==
            IF /\ ~has_moved
               /\ 0 <= double_row /\ double_row < 8
               /\ is_empty(b, double_row, col)
            THEN <<<<double_row, col>>>> ELSE <<>>
    IN  [moves |-> single \o double,
         capture_moves |-> PawnCaptures(b, color, new_row, <<col - 1, col + 1>>)]

Pawn_get_valid_moves(b, has_moved, color, row, col) ==
    LET direction == IF color = "white" THEN -1 ELSE 1
        new_row == row + direction
        double_row == row + 2 * direction
        single ==
            IF 0 <= new_row /\ new_row < 8 /\ is_empty(b, new_row, col)
            THEN <<<<new_row, col>>>> ELSE <<>>
        double ==
            IF /\ single # <<>>
               /\ ~has_moved
               /\ 0 <= double_row /\ double_row < 8
               /\ is_empty(b, double_row, col)
            THEN <<<<double_row, col>>>> ELSE <<>>
    IN  [moves |-> single \o double,
         capture_moves |-> PawnCaptures(b, color, new_row, <<col - 1, col + 1>>)]

\* square.piece.get_valid_moves(board, (row, col)): dispatch on the class of
\* the piece standing on (row, col).  hm is the has_moved attribute of the
\* objects that have one.
get_valid_moves(b, hm, row, col) ==
    LET piece == b[row][col]
        name == PieceName(piece)
        color == PieceColor(piece)
    IN  CASE name = "pawn" -> Pawn_get_valid_moves(b, hm[piece], color, row, col)
          [] name = "knight" -> Knight_get_valid_moves(b, color, row, col)
          [] name = "bishop" -> Bishop_get_valid_moves(b, color, row, col)
          [] name = "rook" -> Rook_get_valid_moves(b, color, row, col)
          [] name = "queen" -> Queen_get_valid_moves(b, color, row, col)
          [] name = "king" -> King_get_valid_moves(b, color, row, col)

\* ------------------------------------------------------------ check tests
NoPosition == <<-1, -1>>

OtherColor(color) == IF color = "white" THEN "black" ELSE "white"

\* First square in row-major order holding a king of the color, or None.
_find_king_position(b, color) ==
    LET kings == {pos \in Positions :
                    /\ b[pos[1]][pos[2]] # None
                    /\ PieceName(b[pos[1]][pos[2]]) = "king"
                    /\ PieceColor(b[pos[1]][pos[2]]) = color}
    IN  IF kings = {} THEN NoPosition
        ELSE CHOOSE k \in kings :
                \A j \in kings : k[1] * BOARD_SIZE + k[2] <= j[1] * BOARD_SIZE + j[2]

\* A variant of is_in_check that looks at the pieces of the king's own color.
is_in_check_same_color(b, hm, color) ==
    LET king_position == _find_king_position(b, color)
    IN  IF king_position = NoPosition THEN FALSE
        ELSE \E row \in Rows, col \in Cols :
                /\ b[row][col] # None
                /\ PieceColor(b[row][col]) = color
                /\ king_position \in Range(get_valid_moves(b, hm, row, col).capture_moves)

is_in_check(b, hm, color) ==
    LET king_position == _find_king_position(b, color)
        enemy_color == OtherColor(color)
    IN  IF king_position = NoPosition THEN FALSE
        ELSE \E row \in Rows, col \in Cols :
                /\ b[row][col] # None
                /\ PieceColor(b[row][col]) = enemy_color
                /\ king_position \in Range(get_valid_moves(b, hm, row, col).capture_moves)

\* A variant of _is_move_legal whose undo does not put the captured piece
\* back on the target square.
_is_move_legal_loses_target(b, hm, from_pos, to_pos, color) ==
    LET moving_piece == b[from_pos[1]][from_pos[2]]
        b1 == [b EXCEPT ![to_pos[1]][to_pos[2]] = moving_piece]
        b2 == [b1 EXCEPT ![from_pos[1]][from_pos[2]] = None]
        still_in_check == is_in_check(b2, hm, color)
        b3 == [b2 EXCEPT ![to_pos[1]][to_pos[2]] = None]
        b4 == [b3 EXCEPT ![from_pos[1]][from_pos[2]] = moving_piece]
    IN  [legal |-> ~still_in_check, squares |-> b4]

\* A variant of _is_move_legal that returns before the undo when the king is
\* still in check.
_is_move_legal_returns_early(b, hm, from_pos, to_pos, color) ==
    LET moving_piece == b[from_pos[1]][from_pos[2]]
        target_piece == b[to_pos[1]][to_pos[2]]
        b1 == [b EXCEPT ![to_pos[1]][to_pos[2]] = moving_piece]
        b2 == [b1 EXCEPT ![from_pos[1]][from_pos[2]] = None]
        still_in_check == is_in_check(b2, hm, color)
        b3 == [b2 EXCEPT ![from_pos[1]][from_pos[2]] = moving_piece]
        b4 == [b3 EXCEPT ![to_pos[1]][to_pos[2]] = target_piece]
    IN  IF still_in_check THEN [legal |-> FALSE, squares |-> b2]
        ELSE [legal |-> TRUE, squares |-> b4]

\* A variant of _is_move_legal that tests for check before making the move.
_is_move_legal_before_move(b, hm, from_pos, to_pos, color) ==
    [legal |-> ~is_in_check(b, hm, color), squares |-> b]

\* Simulate the move on the grid, test the check, undo.  Returns the verdict
\* and the grid as the undo leaves it.
_is_move_legal(b, hm, from_pos, to_pos, color) ==
    LET moving_piece == b[from_pos[1]][from_pos[2]]
        target_piece == b[to_pos[1]][to_pos[2]]
        b1 == [b EXCEPT ![to_pos[1]][to_pos[2]] = moving_piece]
        b2 == [b1 EXCEPT ![from_pos[1]][from_pos[2]] = None]
        still_in_check == is_in_check(b2, hm, color)
        b3 == [b2 EXCEPT ![from_pos[1]][from_pos[2]] = moving_piece]
        b4 == [b3 EXCEPT ![to_pos[1]][to_pos[2]] = target_piece]
    IN  [legal |-> ~still_in_check, squares |-> b4]

\* The filter loop of get_legal_moves over moves + captures, from index i,
\* on grid b; raw is the generator's result computed before the loop and
\* color the color of the piece fetched before the loop.
RECURSIVE FilterLegal(_, _, _, _, _, _, _, _)
FilterLegal(b, hm, row, col, color, raw, all, i) ==
    IF i > Len(all) THEN [moves |-> <<>>, capture_moves |-> <<>>, squares |-> b]
    ELSE
        Let(_is_move_legal(b, hm, <<row, col>>, all[i], color), LAMBDA t :
        Let(FilterLegal(t.squares, hm, row, col, color, raw, all, i + 1), LAMBDA rest :
            IF ~t.legal THEN rest
            ELSE IF all[i] \in Range(raw.moves) THEN
                [rest EXCEPT !.moves = <<all[i]>> \o rest.moves]
            ELSE [rest EXCEPT !.capture_moves = <<all[i]>> \o rest.capture_moves]))

get_legal_moves(b, hm, row, col) ==
    IF b[row][col] = None
    THEN [moves |-> <<>>, capture_moves |-> <<>>, squares |-> b]
    ELSE
        Let(get_valid_moves(b, hm, row, col), LAMBDA raw :
            FilterLegal(b, hm, row, col, PieceColor(b[row][col]), raw,
                        raw.moves \o raw.capture_moves, 1))

\* A variant of EscapeAmong that returns with the escaping move still made
\* on the grid.
RECURSIVE EscapeAmong_keeps_move(_, _, _, _, _, _, _)
EscapeAmong_keeps_move(b, hm, row, col, color, all_moves, i) ==
    IF i > Len(all_moves) THEN [escape |-> FALSE, squares |-> b]
    ELSE
        Let(_is_move_legal(b, hm, <<row, col>>, all_moves[i], color), LAMBDA t :
            IF t.legal
            THEN [escape |-> TRUE,
                  squares |-> [[t.squares EXCEPT ![all_moves[i][1]][all_moves[i][2]]
                                                    = t.squares[row][col]]
                                 EXCEPT ![row][col] = None]]
            ELSE EscapeAmong_keeps_move(t.squares, hm, row, col, color, all_moves, i + 1))

\* The inner loop of is_checkmate over one piece's moves + captures: stops
\* at the first legal one.
RECURSIVE EscapeAmong(_, _, _, _, _, _, _)
EscapeAmong(b, hm, row, col, color, all_moves, i) ==
    IF i > Len(all_moves) THEN [escape |-> FALSE, squares |-> b]
    ELSE
        Let(_is_move_legal(b, hm, <<row, col>>, all_moves[i], color), LAMBDA t :
            IF t.legal THEN [escape |-> TRUE, squares |-> t.squares]
            ELSE EscapeAmong(t.squares, hm, row, col, color, all_moves, i + 1))

\* The number (row * 8 + col) of the first square from number k on, in
\* row-major order, that holds a piece of the color; 64 when there is none.
NextOwnSquare(b, color, k) ==
    LET own == {j \in k .. (BOARD_SIZE * BOARD_SIZE - 1) :
                  /\ b[j \div BOARD_SIZE][j % BOARD_SIZE] # None
                  /\ PieceColor(b[j \div BOARD_SIZE][j % BOARD_SIZE]) = color}
    IN  IF own = {} THEN BOARD_SIZE * BOARD_SIZE
        ELSE CHOOSE j \in own : \A i \in own : j <= i

\* A variant of NoEscapeFrom that tries the quiet moves only.
RECURSIVE NoEscapeFrom_quiet_only(_, _, _, _)
NoEscapeFrom_quiet_only(b, hm, color, k) ==
    Let(NextOwnSquare(b, color, k), LAMBDA n :
        IF n >= BOARD_SIZE * BOARD_SIZE THEN [result |-> TRUE, squares |-> b]
        ELSE
            Let(get_valid_moves(b, hm, n \div BOARD_SIZE, n % BOARD_SIZE), LAMBDA raw :
            Let(EscapeAmong(b, hm, n \div BOARD_SIZE, n % BOARD_SIZE, color,
                            raw.moves, 1), LAMBDA e :
                IF e.escape THEN [result |-> FALSE, squares |-> e.squares]
                ELSE NoEscapeFrom_quiet_only(e.squares, hm, color, n + 1))))

\* The outer loop of is_checkmate over the squares in row-major order, from
\* square number k; squares that do not hold a piece of the color are
\* passed over.
RECURSIVE NoEscapeFrom(_, _, _, _)
NoEscapeFrom(b, hm, color, k) ==
    Let(NextOwnSquare(b, color, k), LAMBDA n :
        IF n >= BOARD_SIZE * BOARD_SIZE THEN [result |-> TRUE, squares |-> b]
        ELSE
            Let(get_valid_moves(b, hm, n \div BOARD_SIZE, n % BOARD_SIZE), LAMBDA raw :
            Let(EscapeAmong(b, hm, n \div BOARD_SIZE, n % BOARD_SIZE, color,
                            raw.moves \o raw.capture_moves, 1), LAMBDA e :
                IF e.escape THEN [result |-> FALSE, squares |-> e.squares]
                ELSE NoEscapeFrom(e.squares, hm, color, n + 1))))

\* A variant of is_checkmate without the test that the color is in check.
is_checkmate_without_check_test(b, hm, color) ==
    NoEscapeFrom(b, hm, color, 0)

is_checkmate(b, hm, color) ==
    IF ~is_in_check(b, hm, color) THEN [result |-> FALSE, squares |-> b]
    ELSE NoEscapeFrom(b, hm, color, 0)

\* A variant of game_over that tests the checks before the checkmates.
game_over_check_first(white_checkmate, black_checkmate, white_check, black_check) ==
    IF white_check THEN "white_check"
    ELSE IF black_check THEN "black_check"
    ELSE IF white_checkmate THEN "black_win"
    ELSE IF black_checkmate THEN "white_win"
    ELSE "playing"

\* A variant of game_over that names the checkmated side as the winner.
game_over_mated_side_wins(white_checkmate, black_checkmate, white_check, black_check) ==
    IF white_checkmate THEN "white_win"
    ELSE IF black_checkmate THEN "black_win"
    ELSE IF white_check THEN "white_check"
    ELSE IF black_check THEN "black_check"
    ELSE "playing"

\* state['game_over'] of get_game_state.
game_over(white_checkmate, black_checkmate, white_check, black_check) ==
    IF white_checkmate THEN "black_win"
    ELSE IF black_checkmate THEN "white_win"
    ELSE IF white_check THEN "white_check"
    ELSE IF black_check THEN "black_check"
    ELSE "playing"

get_game_state(b, hm, player) ==
    Let(is_in_check(b, hm, "white"), LAMBDA white_check :
    Let(is_in_check(b, hm, "black"), LAMBDA black_check :
    Let(is_checkmate(b, hm, "white"), LAMBDA white_checkmate :
    Let(is_checkmate(white_checkmate.squares, hm, "black"), LAMBDA black_checkmate :
        [current_player |-> player,
         white_in_check |-> white_check,
         black_in_check |-> black_check,
         white_checkmate |-> white_checkmate.result,
         black_checkmate |-> black_checkmate.result,
         game_over |-> game_over(white_checkmate.result, black_checkmate.result,
                                 white_check, black_check),
         squares |-> black_checkmate.squares]))))

\* ----------------------------------------------------------------- castling
_is_square_under_attack(b, hm, position, defender_color) ==
    LET attacker_color == OtherColor(defender_color)
    IN  \E row \in Rows, col \in Cols :
            /\ b[row][col] # None
            /\ PieceColor(b[row][col]) = attacker_color
            /\ position \in Range(get_valid_moves(b, hm, row, col).capture_moves)

\* A variant of can_castle without the test that the king is not in check.
can_castle_ignores_check(b, hm, color, side) ==
    LET row == IF color = "white" THEN 7 ELSE 0
        king == b[row][4]
        rook == b[row][IF side = "king" THEN 7 ELSE 0]
    IN  IF \/ king = None \/ rook = None
           \/ PieceName(king) # "king" \/ PieceName(rook) # "rook"
           \/ hm[king] \/ hm[rook]
        THEN FALSE
        ELSE IF side = "king" /\ \E col \in 5 .. 6 : ~is_empty(b, row, col) THEN FALSE
        ELSE IF side # "king" /\ \E col \in 1 .. 3 : ~is_empty(b, row, col) THEN FALSE
        ELSE IF side = "king" /\ _is_square_under_attack(b, hm, <<row, 5>>, color)
            THEN FALSE
        ELSE IF /\ side # "king"
                /\ \/ _is_square_under_attack(b, hm, <<row, 2>>, color)
                   \/ _is_square_under_attack(b, hm, <<row, 3>>, color)
            THEN FALSE
        ELSE TRUE

\* A variant of can_castle that looks only at the square next to the king and
\* makes no attack test.
can_castle_next_to_king(b, hm, color, side) ==
    LET row == IF color = "white" THEN 7 ELSE 0
        king == b[row][4]
        rook == b[row][IF side = "king" THEN 7 ELSE 0]
    IN  IF \/ king = None \/ rook = None
           \/ PieceName(king) # "king" \/ PieceName(rook) # "rook"
           \/ hm[king] \/ hm[rook]
        THEN FALSE
        ELSE IF is_in_check(b, hm, color) THEN FALSE
        ELSE IF side = "king" /\ ~is_empty(b, row, 5) THEN FALSE
        ELSE IF side # "king" /\ ~is_empty(b, row, 3) THEN FALSE
        ELSE TRUE

can_castle(b, hm, color, side) ==
    LET row == IF color = "white" THEN 7 ELSE 0
        king_col == 4
        rook_col == IF side = "king" THEN 7 ELSE 0
        king == b[row][king_col]
        rook == b[row][rook_col]
    IN  IF \/ king = None \/ rook = None
           \/ PieceName(king) # "king" \/ PieceName(rook) # "rook"
           \/ hm[king] \/ hm[rook]
        THEN FALSE
        ELSE IF is_in_check(b, hm, color) THEN FALSE
        ELSE IF side = "king" /\ \E col \in 5 .. 6 : ~is_empty(b, row, col) THEN FALSE
        ELSE IF side # "king" /\ \E col \in 1 .. 3 : ~is_empty(b, row, col) THEN FALSE
        ELSE IF side = "king" /\ _is_square_under_attack(b, hm, <<row, 5>>, color)
            THEN FALSE
        ELSE IF /\ side # "king"
                /\ \/ _is_square_under_attack(b, hm, <<row, 2>>, color)
                   \/ _is_square_under_attack(b, hm, <<row, 3>>, color)
            THEN FALSE
        ELSE TRUE

\* A variant of execute_castle that moves the king and the rook and leaves
\* their has_moved attributes as they are.
execute_castle_keeps_has_moved(b, hm, color, side) ==
    LET row == IF color = "white" THEN 7 ELSE 0
        king_to_col == IF side = "king" THEN 6 ELSE 2
        rook_from_col == IF side = "king" THEN 7 ELSE 0
        rook_to_col == IF side = "king" THEN 5 ELSE 3
    IN  [squares |-> [b EXCEPT ![row][king_to_col] = b[row][4], ![row][4] = None,
                               ![row][rook_to_col] = b[row][rook_from_col],
                               ![row][rook_from_col] = None],
         has_moved |-> hm]

\* A variant of execute_castle that leaves the rook where it is.
execute_castle_king_only(b, hm, color, side) ==
    LET row == IF color = "white" THEN 7 ELSE 0
        king_to_col == IF side = "king" THEN 6 ELSE 2
        king == b[row][4]
    IN  [squares |-> [b EXCEPT ![row][king_to_col] = king, ![row][4] = None],
         has_moved |-> [hm EXCEPT ![king] = TRUE]]

\* Moves the king and the rook of the home row; returns the grid and the
\* has_moved attributes.
execute_castle(b, hm, color, side) ==
    LET row == IF color = "white" THEN 7 ELSE 0
        king_from_col == 4
        king_to_col == IF side = "king" THEN 6 ELSE 2
        rook_from_col == IF side = "king" THEN 7 ELSE 0
        rook_to_col == IF side = "king" THEN 5 ELSE 3
        king == b[row][king_from_col]
        b1 == IF king # None
              THEN [b EXCEPT ![row][king_to_col] = king, ![row][king_from_col] = None]
              ELSE b
        hm1 == IF king # None THEN [hm EXCEPT ![king] = TRUE] ELSE hm
        rook == b1[row][rook_from_col]
        b2 == IF rook # None
              THEN [b1 EXCEPT ![row][rook_to_col] = rook, ![row][rook_from_col] = None]
              ELSE b1
        hm2 == IF rook # None THEN [hm1 EXCEPT ![rook] = TRUE] ELSE hm1
    IN  [squares |-> b2, has_moved |-> hm2]

\* --------------------------------------------------------------- en passant
\* self.last_move = None
NoLastMove ==
    [piece |-> None, from |-> NoPosition, to |-> NoPosition,
     is_double_pawn_move |-> FALSE, captured_piece |-> None]

_is_double_pawn_move(from_position, to_position) ==
    LET d == from_position[1] - to_position[1]
    IN  (IF d < 0 THEN -d ELSE d) = 2

\* A variant of _update_last_move that records the origin as the destination
\* and the destination as the origin.
_update_last_move_swapped(piece, from_position, to_position, captured_piece) ==
    [piece |-> piece, from |-> to_position, to |-> from_position,
     is_double_pawn_move |-> _is_double_pawn_move(from_position, to_position),
     captured_piece |-> captured_piece]

_update_last_move(piece, from_position, to_position, captured_piece) ==
    [piece |-> piece, from |-> from_position, to |-> to_position,
     is_double_pawn_move |-> _is_double_pawn_move(from_position, to_position),
     captured_piece |-> captured_piece]

Abs(n) == IF n < 0 THEN -n ELSE n

\* A variant of _get_available_en_passant_moves that looks at the pawn beside
\* position on the grid instead of at the last move.
_get_available_en_passant_moves_by_grid(b, lm, pawn, position) ==
    LET row == position[1]
        col == position[2]
        color == PieceColor(pawn)
        en_passant_row == row + (IF color = "white" THEN -1 ELSE 1)
        beside == {c \in {col - 1, col + 1} :
                    /\ c \in Cols
                    /\ b[row][c] # None
                    /\ PieceName(b[row][c]) = "pawn"
                    /\ PieceColor(b[row][c]) # color
                    /\ is_empty(b, en_passant_row, c)}
    IN  IF ~((color = "white" /\ row = 3) \/ (color = "black" /\ row = 4)) THEN <<>>
        ELSE IF beside = {} THEN <<>>
        ELSE <<<<en_passant_row, CHOOSE c \in beside : TRUE>>>>

\* A variant of _get_available_en_passant_moves without the test that the
\* last move landed on an adjacent column.
_get_available_en_passant_moves_any_column(b, lm, pawn, position) ==
    LET row == position[1]
        color == PieceColor(pawn)
        en_passant_row == row + (IF color = "white" THEN -1 ELSE 1)
    IN  IF lm.piece = None \/ PieceName(lm.piece) # "pawn" THEN <<>>
        ELSE IF ~(lm.is_double_pawn_move /\ PieceColor(lm.piece) # color) THEN <<>>
        ELSE IF ~((color = "white" /\ row = 3) \/ (color = "black" /\ row = 4)) THEN <<>>
        ELSE IF lm.to[1] = row /\ is_empty(b, en_passant_row, lm.to[2])
            THEN <<<<en_passant_row, lm.to[2]>>>>
        ELSE <<>>

_get_available_en_passant_moves(b, lm, pawn, position) ==
    LET row == position[1]
        col == position[2]
        color == PieceColor(pawn)
    IN  IF lm.piece = None \/ PieceName(lm.piece) # "pawn" THEN <<>>
        ELSE IF ~(lm.is_double_pawn_move /\ PieceColor(lm.piece) # color) THEN <<>>
        ELSE IF ~((color = "white" /\ row = 3) \/ (color = "black" /\ row = 4)) THEN <<>>
        ELSE
            LET last_to_row == lm.to[1]
                last_to_col == lm.to[2]
                direction == IF color = "white" THEN -1 ELSE 1
                en_passant_row == row + direction
                en_passant_col == last_to_col
            IN  IF /\ last_to_row = row
                   /\ Abs(last_to_col - col) = 1
                   /\ 0 <= en_passant_row /\ en_passant_row < 8
                   /\ is_empty(b, en_passant_row, en_passant_col)
                THEN <<<<en_passant_row, en_passant_col>>>>
                ELSE <<>>

_is_en_passant_move_pattern(b, from_pos, to_pos) ==
    LET piece == b[from_pos[1]][from_pos[2]]
    IN  IF piece = None \/ PieceName(piece) # "pawn" THEN FALSE
        ELSE IF ~(Abs(from_pos[2] - to_pos[2]) = 1 /\ is_empty(b, to_pos[1], to_pos[2]))
            THEN FALSE
        ELSE IF ~(\/ PieceColor(piece) = "white" /\ from_pos[1] = 3
                  \/ PieceColor(piece) = "black" /\ from_pos[1] = 4)
            THEN FALSE
        ELSE TRUE

\* A variant of move_piece that does not clear the square moved from.
move_piece_keeps_origin(b, hm, from_pos, to_pos, is_en_passant) ==
    LET piece == b[from_pos[1]][from_pos[2]]
        direction == IF PieceColor(piece) = "white" THEN 1 ELSE -1
        captured_piece ==
            IF is_en_passant THEN b[to_pos[1] + direction][to_pos[2]]
            ELSE b[to_pos[1]][to_pos[2]]
        b1 == IF is_en_passant
              THEN [b EXCEPT ![to_pos[1] + direction][to_pos[2]] = None]
              ELSE b
        hm1 == IF piece # None /\ PieceName(piece) = "pawn"
               THEN [hm EXCEPT ![piece] = TRUE] ELSE hm
        b2 == [b1 EXCEPT ![to_pos[1]][to_pos[2]] = piece]
    IN  [squares |-> b2, has_moved |-> hm1, captured_piece |-> captured_piece]

\* A variant of move_piece that looks for the pawn captured en passant one
\* row beyond the landing square instead of one row behind it.
move_piece_captures_ahead(b, hm, from_pos, to_pos, is_en_passant) ==
    LET piece == b[from_pos[1]][from_pos[2]]
        direction == IF PieceColor(piece) = "white" THEN -1 ELSE 1
        captured_piece ==
            IF is_en_passant THEN b[to_pos[1] + direction][to_pos[2]]
            ELSE b[to_pos[1]][to_pos[2]]
        b1 == IF is_en_passant
              THEN [b EXCEPT ![to_pos[1] + direction][to_pos[2]] = None]
              ELSE b
        hm1 == IF piece # None /\ PieceName(piece) = "pawn"
               THEN [hm EXCEPT ![piece] = TRUE] ELSE hm
        b2 == [b1 EXCEPT ![to_pos[1]][to_pos[2]] = piece]
        b3 == [b2 EXCEPT ![from_pos[1]][from_pos[2]] = None]
    IN  [squares |-> b3, has_moved |-> hm1, captured_piece |-> captured_piece]

\* A variant of move_piece that sets has_moved on a pawn's double step only.
move_piece_flags_double_step_only(b, hm, from_pos, to_pos, is_en_passant) ==
    LET piece == b[from_pos[1]][from_pos[2]]
        direction == IF PieceColor(piece) = "white" THEN 1 ELSE -1
        captured_piece ==
            IF is_en_passant THEN b[to_pos[1] + direction][to_pos[2]]
            ELSE b[to_pos[1]][to_pos[2]]
        b1 == IF is_en_passant
              THEN [b EXCEPT ![to_pos[1] + direction][to_pos[2]] = None]
              ELSE b
        hm1 == IF /\ piece # None /\ PieceName(piece) = "pawn"
                  /\ Abs(from_pos[1] - to_pos[1]) = 2
               THEN [hm EXCEPT ![piece] = TRUE] ELSE hm
        b2 == [b1 EXCEPT ![to_pos[1]][to_pos[2]] = piece]
        b3 == [b2 EXCEPT ![from_pos[1]][from_pos[2]] = None]
    IN  [squares |-> b3, has_moved |-> hm1, captured_piece |-> captured_piece]

\* Returns the grid, the has_moved attributes and the captured piece.
move_piece(b, hm, from_pos, to_pos, is_en_passant) ==
    LET piece == b[from_pos[1]][from_pos[2]]
        direction == IF PieceColor(piece) = "white" THEN 1 ELSE -1
        captured_piece ==
            IF is_en_passant THEN b[to_pos[1] + direction][to_pos[2]]
            ELSE b[to_pos[1]][to_pos[2]]
        b1 == IF is_en_passant
              THEN [b EXCEPT ![to_pos[1] + direction][to_pos[2]] = None]
              ELSE b
        hm1 == IF piece # None /\ PieceName(piece) = "pawn"
               THEN [hm EXCEPT ![piece] = TRUE] ELSE hm
        b2 == [b1 EXCEPT ![to_pos[1]][to_pos[2]] = piece]
        b3 == [b2 EXCEPT ![from_pos[1]][from_pos[2]] = None]
    IN  [squares |-> b3, has_moved |-> hm1, captured_piece |-> captured_piece]

\* ---------------------------------------------------------------- selection
\* The castling destinations show_valid_moves appends to moves.
CastlingMoves(b, hm, piece, row) ==
    IF PieceName(piece) = "king" /\ ~hm[piece] THEN
        (IF can_castle(b, hm, PieceColor(piece), "king") THEN <<<<row, 6>>>> ELSE <<>>)
        \o (IF can_castle(b, hm, PieceColor(piece), "queen") THEN <<<<row, 2>>>> ELSE <<>>)
    ELSE <<>>

\* The en-passant loop of show_valid_moves over the available squares, from
\* index i, on grid b.
RECURSIVE EnPassantLegal(_, _, _, _, _, _, _)
EnPassantLegal(b, hm, row, col, color, en_passant_moves, i) ==
    IF i > Len(en_passant_moves) THEN [capture_moves |-> <<>>, squares |-> b]
    ELSE
        Let(_is_move_legal(b, hm, <<row, col>>, en_passant_moves[i], color), LAMBDA t :
        Let(EnPassantLegal(t.squares, hm, row, col, color, en_passant_moves, i + 1),
            LAMBDA rest :
                IF t.legal
                THEN [rest EXCEPT !.capture_moves =
                                    <<en_passant_moves[i]>> \o rest.capture_moves]
                ELSE rest))

\* Returns the new valid_moves list and the grid the legality tests leave.
\* Only called on an occupied square.
show_valid_moves(b, hm, lm, row, col) ==
    Let(b[row][col], LAMBDA piece :
    Let(get_legal_moves(b, hm, row, col), LAMBDA legal :
    Let(legal.moves \o CastlingMoves(legal.squares, hm, piece, row), LAMBDA moves :
    Let(IF PieceName(piece) = "pawn"
        THEN EnPassantLegal(legal.squares, hm, row, col, PieceColor(piece),
                 _get_available_en_passant_moves(legal.squares, lm, piece, <<row, col>>), 1)
        ELSE [capture_moves |-> <<>>, squares |-> legal.squares], LAMBDA ep :
        [valid_moves |-> moves \o legal.capture_moves \o ep.capture_moves,
         squares |-> ep.squares]))))

\* ---------------------------------------------------------------- the board
VARIABLES
    squares,                \* [row][col] -> piece object or None
    has_moved,              \* piece.has_moved of pawns, kings and rooks
    selected_square,        \* <<row, col>> of the selected square, or NoPosition
    current_player,
    captured_white_pieces,
    captured_black_pieces,
    valid_moves,
    last_move,
    \* history, not part of the Board
    committed,              \* number of moves committed since construction
    mated,                  \* a committed move found the opponent checkmated
    relocated,              \* the pieces some committed move has put on another square
    clicked,                \* get_board_position of the last click, NoClick before the first
    played,                 \* the clicks made so far along a line of Lines
    on_line,                \* no click has left the lines yet
    free,                   \* number of moves committed after leaving the line
    \* the caller of the Board's query methods
    query                   \* the last query made of the board, and its answer

board_vars ==
    <<squares, has_moved, selected_square, current_player,
      captured_white_pieces, captured_black_pieces, valid_moves, last_move>>

vars ==
    <<squares, has_moved, selected_square, current_player,
      captured_white_pieces, captured_black_pieces, valid_moves, last_move,
      committed, mated, relocated, clicked, played, on_line, free, query>>

\* The Board object as a record.
Self ==
    [squares |-> squares, has_moved |-> has_moved,
     selected_square |-> selected_square, current_player |-> current_player,
     captured_white_pieces |-> captured_white_pieces,
     captured_black_pieces |-> captured_black_pieces,
     valid_moves |-> valid_moves, last_move |-> last_move]

\* x // SQUARE_SIZE, y // SQUARE_SIZE; (None, None) off the board.
get_board_position(pos) ==
    LET col == pos[1] \div SQUARE_SIZE
        row == pos[2] \div SQUARE_SIZE
    IN  IF 0 <= row /\ row < BOARD_SIZE /\ 0 <= col /\ col < BOARD_SIZE
        THEN <<row, col>> ELSE NoPosition

\* A variant of is_current_player_piece that accepts a piece of either color.
is_current_player_piece_any(self, piece) ==
    piece # None

is_current_player_piece(self, piece) ==
    piece # None /\ PieceColor(piece) = self.current_player

\* A variant of clear_cache that drops the selection and keeps valid_moves.
clear_cache_keeps_valid_moves(self) == [self EXCEPT !.selected_square = NoPosition]

\* clear_highlights empties valid_moves; clear_cache also drops the selection.
clear_cache(self) ==
    [self EXCEPT !.valid_moves = <<>>, !.selected_square = NoPosition]

\* A variant of add_captured_piece that appends to the list of the other
\* color.
add_captured_piece_other_list(self, captured_piece) ==
    IF PieceColor(captured_piece) = "white"
    THEN [self EXCEPT !.captured_black_pieces = Append(@, captured_piece)]
    ELSE [self EXCEPT !.captured_white_pieces = Append(@, captured_piece)]

add_captured_piece(self, captured_piece) ==
    IF PieceColor(captured_piece) = "white"
    THEN [self EXCEPT !.captured_white_pieces = Append(@, captured_piece)]
    ELSE [self EXCEPT !.captured_black_pieces = Append(@, captured_piece)]

\* A variant of switch_player that leaves the player to move as it is.
switch_player_same(self) == self

switch_player(self) ==
    [self EXCEPT !.current_player = OtherColor(@)]

\* The branch of handle_click that executes the move from the selected
\* square to (row, col).  Returns the board, plus whether the opponent was
\* found checkmated.
CommitMove(self, row, col) ==
    Let(self.selected_square, LAMBDA sel :
    Let(self.squares[sel[1]][sel[2]], LAMBDA moving_piece :
    Let(/\ PieceName(moving_piece) = "king"
        /\ ~self.has_moved[moving_piece]
        /\ Abs(col - sel[2]) = 2, LAMBDA is_castling :
    Let(_is_en_passant_move_pattern(self.squares, sel, <<row, col>>), LAMBDA is_en_passant :
    Let(IF is_castling
        THEN [captured_piece |-> None]
             @@ execute_castle(self.squares, self.has_moved, PieceColor(moving_piece),
                               IF col > sel[2] THEN "king" ELSE "queen")
        ELSE move_piece(self.squares, self.has_moved, sel, <<row, col>>, is_en_passant),
        LAMBDA done :
    Let(_update_last_move(moving_piece, sel, <<row, col>>, done.captured_piece), LAMBDA lm :
    Let(OtherColor(self.current_player), LAMBDA next_player :
    Let(is_in_check(done.squares, done.has_moved, next_player), LAMBDA next_player_in_check :
    Let(is_checkmate(done.squares, done.has_moved, next_player), LAMBDA next_player_checkmate :
    Let(clear_cache([self EXCEPT !.squares = next_player_checkmate.squares,
                                 !.has_moved = done.has_moved,
                                 !.last_move = lm]), LAMBDA s1 :
    Let(IF done.captured_piece # None
        THEN add_captured_piece(s1, done.captured_piece) ELSE s1, LAMBDA s2 :
        [board |-> IF next_player_checkmate.result THEN s2 ELSE switch_player(s2),
         committed |-> TRUE,
         checkmate |-> next_player_checkmate.result])))))))))))

Unchanged(self) == [board |-> self, committed |-> FALSE, checkmate |-> FALSE]

\* A variant of handle_click in which a click on another piece of the player
\* to move only drops the selection.
handle_click_reselect_clears(self, game_state, pos) ==
    LET s0 == [self EXCEPT !.squares = game_state.squares]
        rc == get_board_position(pos)
        row == rc[1]
        col == rc[2]
        \* select the clicked square on board s and show its moves
        Select(s) ==
            Let(show_valid_moves(s.squares, s.has_moved, s.last_move, row, col),
                LAMBDA shown :
                    Unchanged([s EXCEPT !.selected_square = rc,
                                        !.valid_moves = shown.valid_moves,
                                        !.squares = shown.squares]))
    IN  IF game_state.game_over \in {"white_win", "black_win"} THEN Unchanged(s0)
        ELSE IF rc = NoPosition THEN Unchanged(s0)
        ELSE IF is_empty(s0.squares, row, col) /\ rc \notin Range(s0.valid_moves)
            THEN Unchanged(clear_cache(s0))
        ELSE IF /\ s0.selected_square = NoPosition
                /\ is_current_player_piece(s0, s0.squares[row][col])
            THEN Select(s0)
        ELSE IF s0.selected_square = rc THEN Unchanged(clear_cache(s0))
        ELSE IF s0.selected_square # NoPosition THEN
            IF rc \in Range(s0.valid_moves) THEN CommitMove(s0, row, col)
            ELSE Unchanged(clear_cache(s0))
        ELSE Unchanged(s0)

\* A variant of handle_click in which a click off the board drops the
\* selection.
handle_click_off_board_clears(self, game_state, pos) ==
    LET s0 == [self EXCEPT !.squares = game_state.squares]
        rc == get_board_position(pos)
        row == rc[1]
        col == rc[2]
        \* select the clicked square on board s and show its moves
        Select(s) ==
            Let(show_valid_moves(s.squares, s.has_moved, s.last_move, row, col),
                LAMBDA shown :
                    Unchanged([s EXCEPT !.selected_square = rc,
                                        !.valid_moves = shown.valid_moves,
                                        !.squares = shown.squares]))
    IN  IF game_state.game_over \in {"white_win", "black_win"} THEN Unchanged(s0)
        ELSE IF rc = NoPosition THEN Unchanged(clear_cache(s0))
        ELSE IF is_empty(s0.squares, row, col) /\ rc \notin Range(s0.valid_moves)
            THEN Unchanged(clear_cache(s0))
        ELSE IF /\ s0.selected_square = NoPosition
                /\ is_current_player_piece(s0, s0.squares[row][col])
            THEN Select(s0)
        ELSE IF s0.selected_square = rc THEN Unchanged(clear_cache(s0))
        ELSE IF s0.selected_square # NoPosition THEN
            IF rc \in Range(s0.valid_moves) THEN CommitMove(s0, row, col)
            ELSE IF is_current_player_piece(s0, s0.squares[row][col])
                THEN Select(clear_cache(s0))
            ELSE Unchanged(clear_cache(s0))
        ELSE Unchanged(s0)

\* Board.handle_click on the board self with the pixel position pos: the
\* board it leaves, whether it committed a move, whether that move found the
\* opponent checkmated.  game_state is the value of self.get_game_state() of
\* its first statement, which does not depend on pos.
handle_click(self, game_state, pos) ==
    LET s0 == [self EXCEPT !.squares = game_state.squares]
        rc == get_board_position(pos)
        row == rc[1]
        col == rc[2]
        \* select the clicked square on board s and show its moves
        Select(s) ==
            Let(show_valid_moves(s.squares, s.has_moved, s.last_move, row, col),
                LAMBDA shown :
                    Unchanged([s EXCEPT !.selected_square = rc,
                                        !.valid_moves = shown.valid_moves,
                                        !.squares = shown.squares]))
    IN  IF game_state.game_over \in {"white_win", "black_win"} THEN Unchanged(s0)
        ELSE IF rc = NoPosition THEN Unchanged(s0)
        ELSE IF is_empty(s0.squares, row, col) /\ rc \notin Range(s0.valid_moves)
            THEN Unchanged(clear_cache(s0))
        ELSE IF /\ s0.selected_square = NoPosition
                /\ is_current_player_piece(s0, s0.squares[row][col])
            THEN Select(s0)
        ELSE IF s0.selected_square = rc THEN Unchanged(clear_cache(s0))
        ELSE IF s0.selected_square # NoPosition THEN
            IF rc \in Range(s0.valid_moves) THEN CommitMove(s0, row, col)
            ELSE IF is_current_player_piece(s0, s0.squares[row][col])
                THEN Select(clear_cache(s0))
            ELSE Unchanged(clear_cache(s0))
        ELSE Unchanged(s0)

\* ------------------------------------------------------------------- clicks
\* The pixel at the centre of square (row, col).
Centre(sq) == <<sq[2] * SQUARE_SIZE + 40, sq[1] * SQUARE_SIZE + 40>>

\* Lines of play from the starting position, as the squares clicked.
\*   1. f3 e5 2. g4 Qh4#
FoolsMate ==
    <<<<6, 5>>, <<5, 5>>, <<1, 4>>, <<3, 4>>, <<6, 6>>, <<4, 6>>, <<0, 3>>, <<4, 7>>>>

\*   1. f3 e6 2. Nh3 Bc5 3. g3 a6 4. Bg2 a5 5. O-O Bxg1
CastleIntoCheck ==
    <<<<6, 5>>, <<5, 5>>, <<1, 4>>, <<2, 4>>, <<7, 6>>, <<5, 7>>, <<0, 5>>, <<3, 2>>,
      <<6, 6>>, <<5, 6>>, <<1, 0>>, <<2, 0>>, <<7, 5>>, <<6, 6>>, <<2, 0>>, <<3, 0>>,
      <<7, 4>>, <<7, 6>>, <<3, 2>>, <<7, 6>>>>

\*   1. e4 a6 2. e5 d5 3. exd6 e.p.
EnPassant ==
    <<<<6, 4>>, <<4, 4>>, <<1, 0>>, <<2, 0>>, <<4, 4>>, <<3, 4>>, <<1, 3>>, <<3, 3>>,
      <<3, 4>>, <<2, 3>>>>

\*   1. e4 e5 2. Qh5 Nc6 3. Bc4 Nf6 4. Qxf7#
ScholarsMate ==
    <<<<6, 4>>, <<4, 4>>, <<1, 4>>, <<3, 4>>, <<7, 3>>, <<3, 7>>, <<0, 1>>, <<2, 2>>,
      <<7, 5>>, <<4, 2>>, <<0, 6>>, <<2, 5>>, <<3, 7>>, <<1, 5>>>>

\*   1. e4 e5 2. Qh5 Nc6 3. Qxf7+ Kxf7
QueenSacrifice ==
    <<<<6, 4>>, <<4, 4>>, <<1, 4>>, <<3, 4>>, <<7, 3>>, <<3, 7>>, <<0, 1>>, <<2, 2>>,
      <<3, 7>>, <<1, 5>>, <<0, 4>>, <<1, 5>>>>

\*   1. Nf3 a6 2. g3 a5 3. Bg2 a4 4. Kf1 h6 5. Ke1 h5, then e1 is selected
KingReturns ==
    <<<<7, 6>>, <<5, 5>>, <<1, 0>>, <<2, 0>>, <<6, 6>>, <<5, 6>>, <<2, 0>>, <<3, 0>>,
      <<7, 5>>, <<6, 6>>, <<3, 0>>, <<4, 0>>, <<7, 4>>, <<7, 5>>, <<1, 7>>, <<2, 7>>,
      <<7, 5>>, <<7, 4>>, <<2, 7>>, <<3, 7>>, <<7, 4>>>>

\*   1. g3 b6 2. Bg2 Ba6 3. Nf3 h6 4. e4 h5 5. O-O
CastleThroughCheck ==
    <<<<6, 6>>, <<5, 6>>, <<1, 1>>, <<2, 1>>, <<7, 5>>, <<6, 6>>, <<0, 2>>, <<2, 0>>,
      <<7, 6>>, <<5, 5>>, <<1, 7>>, <<2, 7>>, <<6, 4>>, <<4, 4>>, <<2, 7>>, <<3, 7>>,
      <<7, 4>>, <<7, 6>>>>

\*   1. d4 a6 2. Nc3 a5 3. Bf4 a4 4. Qd2 h6 5. O-O-O
QueensideCastle ==
    <<<<6, 3>>, <<4, 3>>, <<1, 0>>, <<2, 0>>, <<7, 1>>, <<5, 2>>, <<2, 0>>, <<3, 0>>,
      <<7, 2>>, <<4, 5>>, <<3, 0>>, <<4, 0>>, <<7, 3>>, <<6, 3>>, <<1, 7>>, <<2, 7>>,
      <<7, 4>>, <<7, 2>>>>

\*   1. e4 a6 2. e5 d5 3. h3 h6, then e5 is selected
EnPassantMissed ==
    <<<<6, 4>>, <<4, 4>>, <<1, 0>>, <<2, 0>>, <<4, 4>>, <<3, 4>>, <<1, 3>>, <<3, 3>>,
      <<6, 7>>, <<5, 7>>, <<1, 7>>, <<2, 7>>, <<3, 4>>>>

\*   1. a3 d5 2. a4 d4 3. e4 dxe3 e.p.
BlackEnPassant ==
    <<<<6, 0>>, <<5, 0>>, <<1, 3>>, <<3, 3>>, <<5, 0>>, <<4, 0>>, <<3, 3>>, <<4, 3>>,
      <<6, 4>>, <<4, 4>>, <<4, 3>>, <<5, 4>>>>

\*   1. Nf3 e6 2. g3 a6 3. Bg2 a5 4. d3 Bb4+, then e1 is selected
CheckBeforeCastle ==
    <<<<7, 6>>, <<5, 5>>, <<1, 4>>, <<2, 4>>, <<6, 6>>, <<5, 6>>, <<1, 0>>, <<2, 0>>,
      <<7, 5>>, <<6, 6>>, <<2, 0>>, <<3, 0>>, <<6, 3>>, <<5, 3>>, <<0, 5>>, <<4, 1>>,
      <<7, 4>>>>
\*   1. e3 a5 2. Qh5 Ra6 3. Qxa5 h5 4. h4 Rah6 5. Qxc7 f6 6. Qxd7+ Kf7
\*   7. Qxb7 Qd3 8. Qxb8 Qh7 9. Qxc8 Kg6 10. Qe6: black has no legal move
Stalemate ==
    <<<<6, 4>>, <<5, 4>>, <<1, 0>>, <<3, 0>>, <<7, 3>>, <<3, 7>>, <<0, 0>>, <<2, 0>>,
      <<3, 7>>, <<3, 0>>, <<1, 7>>, <<3, 7>>, <<6, 7>>, <<4, 7>>, <<2, 0>>, <<2, 7>>,
      <<3, 0>>, <<1, 2>>, <<1, 5>>, <<2, 5>>, <<1, 2>>, <<1, 3>>, <<0, 4>>, <<1, 5>>,
      <<1, 3>>, <<1, 1>>, <<0, 3>>, <<5, 3>>, <<1, 1>>, <<0, 1>>, <<5, 3>>, <<1, 7>>,
      <<0, 1>>, <<0, 2>>, <<1, 5>>, <<2, 6>>, <<0, 2>>, <<2, 4>>>>
\*   1. Nf3 a6 2. g3 a5 3. Bg2 a4 4. O-O b6 5. h3 b5 6. Kh2 b4 7. Rh1 c6
\*   8. Kg1 c5 9. Kf1 c4 10. Ke1 h6: king and rook are back on e1 and h1
CastleAndReturn ==
    <<<<7, 6>>, <<5, 5>>, <<1, 0>>, <<2, 0>>, <<6, 6>>, <<5, 6>>, <<2, 0>>, <<3, 0>>,
      <<7, 5>>, <<6, 6>>, <<3, 0>>, <<4, 0>>, <<7, 4>>, <<7, 6>>, <<1, 1>>, <<2, 1>>,
      <<6, 7>>, <<5, 7>>, <<2, 1>>, <<3, 1>>, <<7, 6>>, <<6, 7>>, <<3, 1>>, <<4, 1>>,
      <<7, 5>>, <<7, 7>>, <<1, 2>>, <<2, 2>>, <<6, 7>>, <<7, 6>>, <<2, 2>>, <<3, 2>>,
      <<7, 6>>, <<7, 5>>, <<3, 2>>, <<4, 2>>, <<7, 5>>, <<7, 4>>, <<1, 7>>, <<2, 7>>>>

Lines ==
    {<<>>, FoolsMate, CastleIntoCheck, EnPassant, ScholarsMate, QueenSacrifice,
     KingReturns, CastleThroughCheck, QueensideCastle, EnPassantMissed, BlackEnPassant,
     CheckBeforeCastle, Stalemate, CastleAndReturn}

\* Moves that may be committed after the end of a line.
MaxFree == 1

\* Pixel coordinates a free click is drawn from: the centre of every row or
\* column, and one coordinate on either side of the board.
ClickCoordinates == {k * SQUARE_SIZE + 40 : k \in -1 .. BOARD_SIZE}

IsPrefix(s, t) == Len(s) <= Len(t) /\ SubSeq(t, 1, Len(s)) = s

NoQuery == [call |-> "none"]

\* No click has been made.
NoClick == <<>>

\* The pieces that stand on a square of grid b1 where they did not stand on
\* grid b.
Relocated(b, b1) ==
    {b1[pos[1]][pos[2]] : pos \in {q \in Positions :
        b1[q[1]][q[2]] # None /\ b1[q[1]][q[2]] # b[q[1]][q[2]]}}

Apply(r) ==
    /\ squares' = r.board.squares
    /\ has_moved' = r.board.has_moved
    /\ selected_square' = r.board.selected_square
    /\ current_player' = r.board.current_player
    /\ captured_white_pieces' = r.board.captured_white_pieces
    /\ captured_black_pieces' = r.board.captured_black_pieces
    /\ valid_moves' = r.board.valid_moves
    /\ last_move' = r.board.last_move
    /\ committed' = committed + (IF r.committed THEN 1 ELSE 0)
    /\ mated' = (mated \/ r.checkmate)
    /\ relocated' = relocated \cup Relocated(squares, r.board.squares)

\* A variant of Init with black to move.
Init_black_first ==
    /\ squares = _setup_pieces
    /\ has_moved = [p \in HasMovedPieces |-> FALSE]
    /\ selected_square = NoPosition
    /\ current_player = "black"
    /\ captured_white_pieces = <<>>
    /\ captured_black_pieces = <<>>
    /\ valid_moves = <<>>
    /\ last_move = NoLastMove
    /\ committed = 0
    /\ mated = FALSE
    /\ relocated = {}
    /\ clicked = NoClick
    /\ played = <<>>
    /\ on_line = TRUE
    /\ free = 0
    /\ query = NoQuery

Init ==
    /\ squares = _setup_pieces
    /\ has_moved = [p \in HasMovedPieces |-> FALSE]
    /\ selected_square = NoPosition
    /\ current_player = "white"
    /\ captured_white_pieces = <<>>
    /\ captured_black_pieces = <<>>
    /\ valid_moves = <<>>
    /\ last_move = NoLastMove
    /\ committed = 0
    /\ mated = FALSE
    /\ relocated = {}
    /\ clicked = NoClick
    /\ played = <<>>
    /\ on_line = TRUE
    /\ free = 0
    /\ query = NoQuery

\* self.get_game_state() on the current board.
GameState == get_game_state(squares, has_moved, current_player)

\* handle_click with a click that follows one of the lines.
LineClick ==
    /\ on_line
    /\ query = NoQuery
    /\ \E game_state \in {GameState}, line \in Lines :
        /\ IsPrefix(played, line)
        /\ Len(played) < Len(line)
        /\ \E sq \in {line[Len(played) + 1]} :
            \E r \in {handle_click(Self, game_state, Centre(sq))} :
                /\ Apply(r)
                /\ clicked' = get_board_position(Centre(sq))
                /\ played' = Append(played, sq)
    /\ UNCHANGED <<on_line, free, query>>

\* handle_click with any click, once a line has been played to its end, up
\* to MaxFree further moves.
FreeClick ==
    /\ played \in Lines
    /\ free < MaxFree
    /\ query = NoQuery
    /\ \E game_state \in {GameState}, x \in ClickCoordinates, y \in ClickCoordinates :
        \E r \in {handle_click(Self, game_state, <<x, y>>)} :
            /\ Apply(r)
            /\ clicked' = get_board_position(<<x, y>>)
            /\ free' = free + (IF r.committed THEN 1 ELSE 0)
    /\ on_line' = FALSE
    /\ UNCHANGED <<played, query>>

Next == LineClick \/ FreeClick

Spec == Init /\ [][Next]_vars

\* ------------------------------------------------------------------ queries
\* The query methods of the Board called from outside handle_click, on the
\* positions of the lines between two moves.  A query leaves in squares the
\* grid the method leaves behind and records its arguments and its answer.
QueryFrame ==
    UNCHANGED <<has_moved, selected_square, current_player, captured_white_pieces,
                captured_black_pieces, valid_moves, last_move, committed, mated,
                relocated, clicked, played, on_line, free>>

Queryable == on_line /\ query = NoQuery /\ selected_square = NoPosition

Query_is_move_legal ==
    /\ Queryable
    /\ \E from_pos \in Positions, to_pos \in Positions :
        /\ squares[from_pos[1]][from_pos[2]] # None
        /\ \E r \in {_is_move_legal(squares, has_moved, from_pos, to_pos,
                                    PieceColor(squares[from_pos[1]][from_pos[2]]))} :
            /\ squares' = r.squares
            /\ query' = [call |-> "_is_move_legal", from_pos |-> from_pos,
                         to_pos |-> to_pos, legal |-> r.legal]
    /\ QueryFrame

Query_get_legal_moves ==
    /\ Queryable
    /\ \E row \in Rows, col \in Cols :
        \E r \in {get_legal_moves(squares, has_moved, row, col)} :
            /\ squares' = r.squares
            /\ query' = [call |-> "get_legal_moves", row |-> row, col |-> col,
                         moves |-> r.moves, capture_moves |-> r.capture_moves]
    /\ QueryFrame

Query_is_in_check ==
    /\ Queryable
    /\ \E color \in {"white", "black"} :
        /\ squares' = squares
        /\ query' = [call |-> "is_in_check", color |-> color,
                     result |-> is_in_check(squares, has_moved, color)]
    /\ QueryFrame

Query_is_checkmate ==
    /\ Queryable
    /\ \E color \in {"white", "black"} :
        \E r \in {is_checkmate(squares, has_moved, color)} :
            /\ squares' = r.squares
            /\ query' = [call |-> "is_checkmate", color |-> color, result |-> r.result]
    /\ QueryFrame

\* The pawns on the grid.
PawnsOnBoard ==
    {squares[pos[1]][pos[2]] : pos \in {q \in Positions :
        squares[q[1]][q[2]] # None /\ PieceName(squares[q[1]][q[2]]) = "pawn"}}

Query_get_available_en_passant_moves ==
    /\ Queryable
    /\ \E pawn \in PawnsOnBoard, position \in Positions :
        /\ squares' = squares
        /\ query' = [call |-> "_get_available_en_passant_moves",
                     pawn |-> pawn, position |-> position,
                     result |-> _get_available_en_passant_moves(squares, last_move,
                                                                pawn, position)]
    /\ QueryFrame

Query_get_game_state ==
    /\ Queryable
    /\ \E r \in {get_game_state(squares, has_moved, current_player)} :
        /\ squares' = r.squares
        /\ query' = [call |-> "get_game_state", game_over |-> r.game_over,
                     white_in_check |-> r.white_in_check,
                     black_in_check |-> r.black_in_check,
                     white_checkmate |-> r.white_checkmate,
                     black_checkmate |-> r.black_checkmate]
    /\ QueryFrame

NextQuery ==
    \/ LineClick
    \/ Query_is_move_legal
    \/ Query_get_legal_moves
    \/ Query_is_in_check
    \/ Query_is_checkmate
    \/ Query_get_available_en_passant_moves
    \/ Query_get_game_state

SpecQuery == Init /\ [][NextQuery]_vars

\* square.piece.get_valid_moves(self, (row, col)) called for the piece of an
\* occupied square, as is_in_check, is_checkmate and get_legal_moves call it.
Query_get_valid_moves ==
    /\ Queryable
    /\ \E row \in Rows, col \in Cols :
        /\ ~is_empty(squares, row, col)
        /\ \E r \in {get_valid_moves(squares, has_moved, row, col)} :
            query' = [call |-> "get_valid_moves", row |-> row, col |-> col,
                      moves |-> r.moves, capture_moves |-> r.capture_moves]
    /\ squares' = squares
    /\ QueryFrame

\* Queen.get_valid_moves and Bishop.get_valid_moves called with the same
\* position and for the same color, on any square of the board.
Query_queen_and_bishop ==
    /\ Queryable
    /\ \E row \in Rows, col \in Cols, color \in {"white", "black"} :
        \E queen \in {Queen_get_valid_moves(squares, color, row, col)},
           bishop \in {Bishop_get_valid_moves(squares, color, row, col)} :
            query' = [call |-> "queen_and_bishop", row |-> row, col |-> col,
                      color |-> color, queen |-> queen, bishop |-> bishop]
    /\ squares' = squares
    /\ QueryFrame

NextMoves == LineClick \/ Query_get_valid_moves \/ Query_queen_and_bishop

\* The movement generators called on the positions of the lines.
SpecMoves == Init /\ [][NextMoves]_vars

\* ------------------------------------------------------------------- claims
KingSquares(color) ==
    {pos \in Positions :
        /\ squares[pos[1]][pos[2]] # None
        /\ PieceName(squares[pos[1]][pos[2]]) = "king"
        /\ PieceColor(squares[pos[1]][pos[2]]) = color}

\* C1: after every move committed through handle_click, the king of the
\* side that just moved is not in check in the resulting position.
C1_MoverNotInCheck ==
    [][committed' > committed => ~is_in_check(squares', has_moved', current_player)]_vars

\* C2: while no committed move has checkmated, current_player is white
\* after an even number of committed moves and black after an odd number,
\* and every committed move that does not checkmate flips current_player.
C2_TurnAlternation ==
    /\ [](~mated => current_player = (IF committed % 2 = 0 THEN "white" ELSE "black"))
    /\ [][(committed' > committed /\ ~mated')
            => current_player' = OtherColor(current_player)]_vars

\* Three moves committed, none a checkmate, black to move.
C2_Witness == committed = 3 /\ ~mated /\ current_player = "black"

\* C3: in every reachable state the grid holds exactly one white king and
\* exactly one black king.
C3_OneKingEach ==
    /\ Cardinality(KingSquares("white")) = 1
    /\ Cardinality(KingSquares("black")) = 1

\* C4: in every state between handle_click calls no piece is on two squares.
C4_NoPieceOnTwoSquares ==
    \A p \in Positions, q \in Positions :
        (p # q /\ squares[p[1]][p[2]] # None) => squares[p[1]][p[2]] # squares[q[1]][q[2]]

\* White has castled king-side, a piece has been captured by move_piece, or
\* a piece is selected after a move: its moves went through _is_move_legal.
C4_Witness ==
    /\ committed > 0
    /\ \/ (squares[7][6] = 29 /\ squares[7][5] = 32)
       \/ captured_white_pieces # <<>>
       \/ captured_black_pieces # <<>>
    /\ selected_square # NoPosition

\* C5: a handle_click that commits no move leaves the grid, every has_moved
\* flag, current_player, last_move and both capture lists unchanged.
C5_NonCommittingClickFrame ==
    [][committed' = committed
        => UNCHANGED <<squares, has_moved, current_player, last_move,
                       captured_white_pieces, captured_black_pieces>>]_vars

\* After the moves of a line a click has been made that committed no move
\* and left no piece selected.
C5_Witness ==
    /\ ~on_line /\ free = 0 /\ committed > 0 /\ ~mated
    /\ selected_square = NoPosition

\* C6: for any occupied origin and any destination, _is_move_legal returns
\* with every square holding the occupant it held before the call and with
\* every has_moved flag as before.
C6_IsMoveLegalRestoresBoard ==
    [][query'.call = "_is_move_legal"
        => squares' = squares /\ has_moved' = has_moved]_vars

\* _is_move_legal has simulated a capture that leaves the mover in check.
C6_Witness ==
    /\ query.call = "_is_move_legal"
    /\ squares[query.to_pos[1]][query.to_pos[2]] # None
    /\ query.from_pos # query.to_pos
    /\ ~query.legal

\* The raw candidates of the piece on (row, col) whose application by
\* move_piece leaves the color of the piece out of check.
SafeCandidates(row, col, candidates) ==
    {d \in Range(candidates) :
        LET done == move_piece(squares, has_moved, <<row, col>>, d, FALSE)
        IN  ~is_in_check(done.squares, done.has_moved, PieceColor(squares[row][col]))}

\* C7: for an occupied square, get_legal_moves returns exactly the raw
\* candidates, quiet and capturing, whose application leaves the king of
\* the moved piece's color out of check.
C7_LegalMovesLeaveKingSafe ==
    (query.call = "get_legal_moves" /\ squares[query.row][query.col] # None) =>
        LET raw == get_valid_moves(squares, has_moved, query.row, query.col)
        IN  /\ Range(query.moves) = SafeCandidates(query.row, query.col, raw.moves)
            /\ Range(query.capture_moves)
                 = SafeCandidates(query.row, query.col, raw.capture_moves)

\* get_legal_moves has dropped a raw candidate and kept another.
C7_Witness ==
    /\ query.call = "get_legal_moves"
    /\ squares[query.row][query.col] # None
    /\ query.moves # <<>>
    /\ LET raw == get_valid_moves(squares, has_moved, query.row, query.col)
       IN  Len(query.moves) + Len(query.capture_moves)
             < Len(raw.moves) + Len(raw.capture_moves)

\* C8: on a grid that holds a king of the color, is_in_check(color) is true
\* exactly when some piece of the opposing color has the king's square in
\* its raw capture set.
C8_CheckIffKingInCaptureSet ==
    (query.call = "is_in_check" /\ KingSquares(query.color) # {}) =>
        (query.result <=>
            \E pos \in Positions, k \in KingSquares(query.color) :
                /\ squares[pos[1]][pos[2]] # None
                /\ PieceColor(squares[pos[1]][pos[2]]) # query.color
                /\ k \in Range(get_valid_moves(squares, has_moved,
                                                pos[1], pos[2]).capture_moves))

\* is_in_check has answered true.
C8_Witness == query.call = "is_in_check" /\ query.result

\* The color has a move handle_click would accept: some piece of the color
\* is shown a destination on selection.
HasAcceptedMove(color) ==
    \E pos \in Positions :
        /\ squares[pos[1]][pos[2]] # None
        /\ PieceColor(squares[pos[1]][pos[2]]) = color
        /\ show_valid_moves(squares, has_moved, last_move, pos[1], pos[2]).valid_moves # <<>>

\* C9: is_checkmate(color) is true exactly when the color is in check and
\* no piece of the color has a move handle_click would accept, en passant
\* included; it is false when the color is not in check.
C9_CheckmateIffCheckAndNoMove ==
    query.call = "is_checkmate" =>
        (query.result <=>
            (is_in_check(squares, has_moved, query.color) /\ ~HasAcceptedMove(query.color)))

\* is_checkmate has answered true.
C9_Witness == query.call = "is_checkmate" /\ query.result

\* C10: a committed move that checkmates does not switch current_player,
\* and after it no handle_click changes the grid, current_player,
\* last_move, the selection or the capture lists.
C10_CheckmateIsTerminal ==
    [][/\ (mated' /\ ~mated) => current_player' = current_player
       /\ mated => UNCHANGED <<squares, current_player, last_move, selected_square,
                               captured_white_pieces, captured_black_pieces>>]_vars

\* A click has been made after the checkmating move.
C10_Witness == mated /\ ~on_line

C12_NoCastlingAfterRelocation ==
    \A color \in {"white", "black"}, side \in {"king", "queen"} :
        LET row == IF color = "white" THEN 7 ELSE 0
            king == _setup_pieces[row][4]
            rook == _setup_pieces[row][IF side = "king" THEN 7 ELSE 0]
            king_to == <<row, IF side = "king" THEN 6 ELSE 2>>
        IN  (king \in relocated \/ rook \in relocated)
                => /\ ~can_castle(squares, has_moved, color, side)
                   /\ (selected_square = <<row, 4>> /\ squares[row][4] = king)
                        => king_to \notin Range(valid_moves)

\* The king of the color could be captured if it stood on position: the grid
\* with the king put there has the king in check.
AttackedIfKingStood(color, position) ==
    LET king_pos == _find_king_position(squares, color)
        b == [[squares EXCEPT ![king_pos[1]][king_pos[2]] = None]
                EXCEPT ![position[1]][position[2]] = squares[king_pos[1]][king_pos[2]]]
    IN  is_in_check(b, has_moved, color)

\* C13: can_castle(color, side) is false whenever a square the king passes
\* over (column 5 king-side, columns 3 and 2 queen-side) is attacked: some
\* opposing piece could capture on it if the king stood there.
C13_NoCastlingThroughAttack ==
    \A color \in {"white", "black"}, side \in {"king", "queen"} :
        LET row == IF color = "white" THEN 7 ELSE 0
            transit == IF side = "king" THEN {5} ELSE {3, 2}
        IN  (/\ _find_king_position(squares, color) # NoPosition
             /\ \E col \in transit : AttackedIfKingStood(color, <<row, col>>))
                => ~can_castle(squares, has_moved, color, side)

\* The columns strictly between the king and the rook of a side.
Between(side) == IF side = "king" THEN 5 .. 6 ELSE 1 .. 3

\* C14: can_castle(color, side) is false whenever a square strictly between
\* the king and the rook of that side is occupied.
C14_NoCastlingOverOccupied ==
    \A color \in {"white", "black"}, side \in {"king", "queen"} :
        LET row == IF color = "white" THEN 7 ELSE 0
        IN  (\E col \in Between(side) : ~is_empty(squares, row, col))
                => ~can_castle(squares, has_moved, color, side)

\* After some moves the white king and king's rook are at home and unmoved,
\* white is not in check, f1 is empty and g1 is still occupied.
C14_Witness ==
    /\ committed > 0
    /\ squares[7][4] = 29 /\ squares[7][7] = 32
    /\ ~has_moved[29] /\ ~has_moved[32]
    /\ ~is_in_check(squares, has_moved, "white")
    /\ is_empty(squares, 7, 5) /\ ~is_empty(squares, 7, 6)
    /\ ~can_castle(squares, has_moved, "white", "king")

C16_EnPassantAvailability ==
    query.call = "_get_available_en_passant_moves" =>
        LET row == query.position[1]
            col == query.position[2]
            color == PieceColor(query.pawn)
            direction == IF color = "white" THEN -1 ELSE 1
            available ==
                /\ last_move.piece # None
                /\ PieceName(last_move.piece) = "pawn"
                /\ PieceColor(last_move.piece) # color
                /\ Abs(last_move.to[1] - last_move.from[1]) = 2
                /\ row = (IF color = "white" THEN 3 ELSE 4)
                /\ last_move.to[1] = row
                /\ Abs(last_move.to[2] - col) = 1
        IN  query.result = IF available THEN <<<<row + direction, last_move.to[2]>>>>
                           ELSE <<>>

\* The call was made for a pawn on its own square and returned a square.
C16_Witness ==
    /\ query.call = "_get_available_en_passant_moves"
    /\ squares[query.position[1]][query.position[2]] = query.pawn
    /\ Len(query.result) = 1

\* C17: a committed move of the selected pawn to an empty square of another
\* column (an en-passant capture) puts the pawn on that square, empties the
\* square it came from, removes the opposing pawn from the square of the
\* pawn's row in the landing column and appends exactly that pawn to the
\* capture list of its color; no other square and no other list changes.
C17_EnPassantCapture ==
    [][(/\ committed' > committed
        /\ selected_square # NoPosition
        /\ PieceName(squares[selected_square[1]][selected_square[2]]) = "pawn"
        /\ last_move'.to[2] # selected_square[2]
        /\ is_empty(squares, last_move'.to[1], last_move'.to[2]))
        => LET from == selected_square
               to == last_move'.to
               pawn == squares[from[1]][from[2]]
               victim == squares[from[1]][to[2]]
           IN  /\ victim # None
               /\ PieceName(victim) = "pawn"
               /\ PieceColor(victim) # PieceColor(pawn)
               /\ squares' = [[[squares EXCEPT ![from[1]][to[2]] = None]
                                 EXCEPT ![to[1]][to[2]] = pawn]
                                 EXCEPT ![from[1]][from[2]] = None]
               /\ last_move'.captured_piece = victim
               /\ IF PieceColor(victim) = "white"
                  THEN /\ captured_white_pieces' = Append(captured_white_pieces, victim)
                       /\ UNCHANGED captured_black_pieces
                  ELSE /\ captured_black_pieces' = Append(captured_black_pieces, victim)
                       /\ UNCHANGED captured_white_pieces]_vars

\* Black's d-pawn has just captured white's e-pawn en passant on e3.
C17_Witness ==
    /\ last_move.piece = 12 /\ last_move.from = <<4, 3>> /\ last_move.to = <<5, 4>>
    /\ squares[5][4] = 12 /\ squares[4][4] = None /\ squares[4][3] = None
    /\ captured_white_pieces = <<21>>
    /\ last_move.captured_piece = 21

\* C18: every committed move overwrites last_move with the move just made;
\* a pawn is offered an en-passant capture (an empty square of another
\* column among its valid_moves) only while last_move is the double step of
\* an opposing pawn that landed beside it in that column, and an executed
\* en-passant capture removes the pawn of last_move and no other.
C18_EnPassantOnlyRightAfterDoubleStep ==
    /\ [][committed' > committed
            => /\ last_move'.piece = squares[selected_square[1]][selected_square[2]]
               /\ last_move'.from = selected_square
               /\ squares'[last_move'.to[1]][last_move'.to[2]] = last_move'.piece]_vars
    /\ [](\A i \in 1 .. Len(valid_moves) :
            LET from == selected_square
                to == valid_moves[i]
            IN  (/\ from # NoPosition
                 /\ PieceName(squares[from[1]][from[2]]) = "pawn"
                 /\ to[2] # from[2]
                 /\ is_empty(squares, to[1], to[2]))
                    => /\ last_move.piece # None
                       /\ PieceName(last_move.piece) = "pawn"
                       /\ PieceColor(last_move.piece) # current_player
                       /\ Abs(last_move.to[1] - last_move.from[1]) = 2
                       /\ last_move.to = <<from[1], to[2]>>
                       /\ squares[from[1]][to[2]] = last_move.piece)
    /\ [][(/\ committed' > committed
           /\ PieceName(squares[selected_square[1]][selected_square[2]]) = "pawn"
           /\ last_move'.to[2] # selected_square[2]
           /\ is_empty(squares, last_move'.to[1], last_move'.to[2]))
            => /\ last_move'.captured_piece = last_move.piece
               /\ last_move.to = <<selected_square[1], last_move'.to[2]>>
               /\ Abs(last_move.to[1] - last_move.from[1]) = 2]_vars

\* White's pawn on e5 is selected one move too late: black's pawn that
\* made the double step to d5 stands beside it, black has moved another
\* pawn since, and only the step forward is offered.
C18_Witness ==
    /\ selected_square = <<3, 4>> /\ squares[3][4] = 21
    /\ squares[3][3] = 12 /\ is_empty(squares, 2, 3)
    /\ last_move.piece = 16
    /\ valid_moves = <<<<2, 4>>>>

\* C19: after every committed move last_move.is_double_pawn_move is true if
\* and only if the piece moved is a pawn and the rows of last_move.from and
\* last_move.to differ by exactly 2.
C19_DoublePawnMoveFlag ==
    last_move.piece # None =>
        (last_move.is_double_pawn_move
            <=> /\ PieceName(last_move.piece) = "pawn"
                /\ Abs(last_move.from[1] - last_move.to[1]) = 2)

\* The has_moved attributes read off the grid: a pawn has moved unless it
\* stands on the row it started on; kings and rooks get the value kr.
HasMovedFromGrid(kr) ==
    [p \in HasMovedPieces |->
        IF PieceName(p) = "pawn"
        THEN ~\E col \in Cols : squares[IF PieceColor(p) = "white" THEN 6 ELSE 1][col] = p
        ELSE kr]

\* C20: get_game_state()['game_over'] is 'black_win' when white is
\* checkmated, else 'white_win' when black is checkmated, else 'white_check'
\* when white is in check, else 'black_check' when black is in check, else
\* 'playing'; it is the same for either player to move and for the has_moved
\* attributes read off the grid, whatever those of kings and rooks.
C20_GameOverFromGrid ==
    query.call = "get_game_state" =>
        /\ query.game_over =
            (IF is_checkmate(squares, has_moved, "white").result THEN "black_win"
             ELSE IF is_checkmate(squares, has_moved, "black").result THEN "white_win"
             ELSE IF is_in_check(squares, has_moved, "white") THEN "white_check"
             ELSE IF is_in_check(squares, has_moved, "black") THEN "black_check"
             ELSE "playing")
        /\ \A player \in {"white", "black"}, kr \in BOOLEAN :
            get_game_state(squares, HasMovedFromGrid(kr), player).game_over
                = query.game_over

\* get_game_state was called on a position in which white is checkmated.
C20_Witness ==
    /\ query.call = "get_game_state"
    /\ query.white_checkmate
    /\ query.game_over = "black_win"

\* C21: get_game_state, and is_in_check and is_checkmate called on their
\* own, leave the grid, the has_moved attributes, current_player, last_move,
\* the selection, valid_moves and both capture lists as they were.
C21_GameStateLeavesBoard ==
    [][query'.call \in {"get_game_state", "is_in_check", "is_checkmate"}
        => UNCHANGED <<squares, has_moved, current_player, last_move,
                       selected_square, valid_moves,
                       captured_white_pieces, captured_black_pieces>>]_vars

\* get_game_state was called on a position with a king in check and not
\* checkmated: is_checkmate has simulated moves up to an escape.
C21_Witness ==
    /\ query.call = "get_game_state"
    /\ query.game_over \in {"white_check", "black_check"}
    /\ committed > 0

\* The square holds a piece of the player to move.
OwnPieceOn(pos) ==
    /\ pos \in Positions
    /\ squares[pos[1]][pos[2]] # None
    /\ PieceColor(squares[pos[1]][pos[2]]) = current_player

LegalDestinations(row, col) ==
    LET piece == squares[row][col]
        legal == get_legal_moves(squares, has_moved, row, col)
        en_passant ==
            IF PieceName(piece) = "pawn"
            THEN {d \in Range(_get_available_en_passant_moves(squares, last_move,
                                                              piece, <<row, col>>)) :
                    _is_move_legal(squares, has_moved, <<row, col>>, d,
                                   PieceColor(piece)).legal}
            ELSE {}
    IN  Range(legal.moves) \cup Range(legal.capture_moves)
            \cup Range(CastlingMoves(squares, has_moved, piece, row))
            \cup en_passant

C24_OffBoardClickIsNoOp ==
    [][clicked' = NoPosition
        => /\ UNCHANGED <<squares, has_moved, selected_square, current_player,
                          captured_white_pieces, captured_black_pieces,
                          valid_moves, last_move>>
           /\ committed' = committed]_vars

\* A click off the board has been made while a piece was selected.
C24_Witness ==
    /\ clicked = NoPosition
    /\ selected_square # NoPosition
    /\ valid_moves # <<>>

\* C25: on the board as Board() leaves it (no move committed yet) white is
\* to move, neither color is in check or checkmated, and get_game_state
\* reports 'playing'; is_checkmate and get_game_state called there return
\* the same.
C25_InitialPositionIsPlaying ==
    committed = 0 =>
        /\ squares = _setup_pieces
        /\ current_player = "white"
        /\ ~is_in_check(squares, has_moved, "white")
        /\ ~is_in_check(squares, has_moved, "black")
        /\ ~is_checkmate(squares, has_moved, "white").result
        /\ ~is_checkmate(squares, has_moved, "black").result
        /\ get_game_state(squares, has_moved, current_player).game_over = "playing"
        /\ query.call = "is_checkmate" => ~query.result
        /\ query.call = "get_game_state"
            => /\ query.game_over = "playing"
               /\ ~query.white_checkmate /\ ~query.black_checkmate

\* get_game_state has been called on the new board.
C25_Witness ==
    /\ committed = 0 /\ played = <<>>
    /\ query.call = "get_game_state"
    /\ query.game_over = "playing"

\* C26: no call of is_in_check or is_checkmate for a color whose king is
\* not on the grid returns a result: the call ends in a fatal error.
C26_KinglessQueryIsFatal ==
    ~(/\ query.call \in {"is_in_check", "is_checkmate"}
      /\ KingSquares(query.color) = {})

\* The piece a get_valid_moves call was made for.
QueriedPiece == squares[query.row][query.col]

\* The lists returned hold squares of the board, none of them twice.
QueryListsAreSets ==
    /\ Range(query.moves) \subseteq Positions
    /\ Range(query.capture_moves) \subseteq Positions
    /\ Len(query.moves) = Cardinality(Range(query.moves))
    /\ Len(query.capture_moves) = Cardinality(Range(query.capture_moves))

\* C27: Pawn.get_valid_moves returns as quiet moves the square one row
\* forward (row - 1 for white, row + 1 for black) if it is empty, and the
\* square two rows forward if has_moved is false and that square and the
\* one passed over are empty; as captures exactly the two forward-diagonal
\* squares that hold a piece of the other color; nothing else, and no square
\* off the board.
C27_PawnMoves ==
    (query.call = "get_valid_moves" /\ PieceName(QueriedPiece) = "pawn") =>
        LET row == query.row
            col == query.col
            color == PieceColor(QueriedPiece)
            forward == IF color = "white" THEN -1 ELSE 1
            Empty(sq) == sq \in Positions /\ squares[sq[1]][sq[2]] = None
        IN  /\ QueryListsAreSets
            /\ Range(query.moves) =
                {sq \in Positions :
                    \/ sq = <<row + forward, col>> /\ Empty(sq)
                    \/ /\ sq = <<row + 2 * forward, col>>
                       /\ ~has_moved[QueriedPiece]
                       /\ Empty(<<row + forward, col>>) /\ Empty(sq)}
            /\ Range(query.capture_moves) =
                {sq \in Positions :
                    /\ sq[1] = row + forward
                    /\ sq[2] \in {col - 1, col + 1}
                    /\ squares[sq[1]][sq[2]] # None
                    /\ PieceColor(squares[sq[1]][sq[2]]) # color}

\* The generator was called for a pawn that has not moved and can step one
\* row but not two.
C27_Witness ==
    /\ query.call = "get_valid_moves"
    /\ PieceName(QueriedPiece) = "pawn"
    /\ ~has_moved[QueriedPiece]
    /\ Len(query.moves) = 1

\* The row the pawns of a color start on.
PawnHomeRow(color) == IF color = "white" THEN 6 ELSE 1

\* C28: every pawn on the grid whose has_moved is false stands on its home
\* row (row 6 for white, row 1 for black); a step of two rows is offered to a
\* selected pawn, and committed for a pawn, only from its home row.
C28_UnmovedPawnsAreHome ==
    /\ [](\A pos \in Positions :
            LET piece == squares[pos[1]][pos[2]]
            IN  (piece # None /\ PieceName(piece) = "pawn" /\ ~has_moved[piece])
                    => pos[1] = PawnHomeRow(PieceColor(piece)))
    /\ [](\A i \in 1 .. Len(valid_moves) :
            LET piece == squares[selected_square[1]][selected_square[2]]
            IN  (/\ selected_square # NoPosition
                 /\ PieceName(piece) = "pawn"
                 /\ Abs(valid_moves[i][1] - selected_square[1]) = 2)
                    => selected_square[1] = PawnHomeRow(PieceColor(piece)))
    /\ [][(/\ committed' > committed
           /\ PieceName(last_move'.piece) = "pawn"
           /\ Abs(last_move'.to[1] - last_move'.from[1]) = 2)
            => last_move'.from[1] = PawnHomeRow(PieceColor(last_move'.piece))]_vars

\* A pawn that left its home row by a single step is selected; pawns that
\* have not moved are still on the grid.
C28_Witness ==
    /\ selected_square # NoPosition
    /\ LET piece == squares[selected_square[1]][selected_square[2]]
       IN  /\ PieceName(piece) = "pawn"
           /\ has_moved[piece]
           /\ Abs(selected_square[1] - PawnHomeRow(PieceColor(piece))) = 1
           /\ valid_moves # <<>>
    /\ \E p \in 9 .. 24 : ~has_moved[p]

\* The square at the given distance from (row, col) in a direction.
Along(row, col, direction, distance) ==
    <<row + direction[1] * distance, col + direction[2] * distance>>

\* Every square from distance 1 up to the given distance in the direction
\* is on the board and empty.
ClearUpTo(row, col, direction, distance) ==
    \A k \in 1 .. distance :
        /\ Along(row, col, direction, k) \in Positions
        /\ squares[Along(row, col, direction, k)[1]][Along(row, col, direction, k)[2]] = None

\* The directions a bishop and a queen move in.
Diagonals == {<<-1, -1>>, <<-1, 1>>, <<1, -1>>, <<1, 1>>}
Orthogonals == {<<-1, 0>>, <<1, 0>>, <<0, -1>>, <<0, 1>>}

\* C29: Bishop.get_valid_moves (four diagonals) and Queen.get_valid_moves
\* (the diagonals and the four orthogonals) return as quiet moves exactly
\* the empty squares with only empty squares between them and the piece, as
\* captures exactly the first occupied square of a ray when its occupant is
\* of the other color, and no square behind a first occupied square.
C29_RayMoves ==
    (query.call = "get_valid_moves" /\ PieceName(QueriedPiece) \in {"bishop", "queen"}) =>
        LET row == query.row
            col == query.col
            color == PieceColor(QueriedPiece)
            directions == IF PieceName(QueriedPiece) = "bishop" THEN Diagonals
                          ELSE Diagonals \cup Orthogonals
        IN  /\ QueryListsAreSets
            /\ Range(query.moves) =
                {sq \in Positions : \E d \in directions, k \in 1 .. 7 :
                    sq = Along(row, col, d, k) /\ ClearUpTo(row, col, d, k)}
            /\ Range(query.capture_moves) =
                {sq \in Positions : \E d \in directions, k \in 1 .. 7 :
                    /\ sq = Along(row, col, d, k)
                    /\ ClearUpTo(row, col, d, k - 1)
                    /\ squares[sq[1]][sq[2]] # None
                    /\ PieceColor(squares[sq[1]][sq[2]]) # color}

\* The generator was called for a bishop or queen that has quiet moves, a
\* capture and a ray that ends on a piece of its own color.
C29_Witness ==
    /\ query.call = "get_valid_moves"
    /\ PieceName(QueriedPiece) \in {"bishop", "queen"}
    /\ query.moves # <<>>
    /\ query.capture_moves # <<>>
    /\ \E d \in Diagonals, k \in 1 .. 7 :
        /\ ClearUpTo(query.row, query.col, d, k - 1)
        /\ Along(query.row, query.col, d, k) \in Positions
        /\ LET sq == Along(query.row, query.col, d, k)
           IN  /\ squares[sq[1]][sq[2]] # None
               /\ PieceColor(squares[sq[1]][sq[2]]) = PieceColor(QueriedPiece)

\* The squares a knight, or a king, on (row, col) may step to on an empty
\* board.
KnightTargets(row, col) ==
    {sq \in Positions :
        {Abs(sq[1] - row), Abs(sq[2] - col)} = {1, 2}}

KingTargets(row, col) ==
    {sq \in Positions :
        /\ sq # <<row, col>>
        /\ Abs(sq[1] - row) <= 1 /\ Abs(sq[2] - col) <= 1}

\* C30: Knight.get_valid_moves and King.get_valid_moves return, of the
\* on-board squares at the eight knight offsets (the eight adjacent squares
\* for the king), the empty ones as quiet moves and the ones that hold a
\* piece of the other color as captures, and no other square; the king's
\* lists never hold a square two columns away (a castling destination).
C30_StepMoves ==
    (query.call = "get_valid_moves" /\ PieceName(QueriedPiece) \in {"knight", "king"}) =>
        LET row == query.row
            col == query.col
            color == PieceColor(QueriedPiece)
            targets == IF PieceName(QueriedPiece) = "knight"
                       THEN KnightTargets(row, col) ELSE KingTargets(row, col)
        IN  /\ QueryListsAreSets
            /\ Range(query.moves) =
                {sq \in targets : squares[sq[1]][sq[2]] = None}
            /\ Range(query.capture_moves) =
                {sq \in targets : /\ squares[sq[1]][sq[2]] # None
                                  /\ PieceColor(squares[sq[1]][sq[2]]) # color}
            /\ PieceName(QueriedPiece) = "king"
                => \A sq \in Range(query.moves) \cup Range(query.capture_moves) :
                        Abs(sq[2] - col) < 2

\* The generator was called for a king that stands at home, has not moved
\* and may castle: its quiet moves are adjacent squares only.
C30_Witness ==
    /\ query.call = "get_valid_moves"
    /\ PieceName(QueriedPiece) = "king"
    /\ ~has_moved[QueriedPiece]
    /\ can_castle(squares, has_moved, PieceColor(QueriedPiece), "king")
    /\ query.moves # <<>>

\* The squares of the orthogonal rays from (row, col), each walked up to the
\* first occupied square or the edge: the empty squares, and the first
\* occupied squares that hold a piece of the other color.
OrthogonalQuiet(row, col) ==
    {sq \in Positions : \E d \in Orthogonals, k \in 1 .. 7 :
        sq = Along(row, col, d, k) /\ ClearUpTo(row, col, d, k)}

OrthogonalCaptures(row, col, color) ==
    {sq \in Positions : \E d \in Orthogonals, k \in 1 .. 7 :
        /\ sq = Along(row, col, d, k)
        /\ ClearUpTo(row, col, d, k - 1)
        /\ squares[sq[1]][sq[2]] # None
        /\ PieceColor(squares[sq[1]][sq[2]]) # color}

\* C31: for every square and color, the quiet moves of Queen.get_valid_moves
\* are those of Bishop.get_valid_moves from the same square and color
\* together with the quiet squares of the four orthogonal rays, and its
\* captures are the bishop's together with the captures of those rays.
C31_QueenIsBishopPlusOrthogonals ==
    query.call = "queen_and_bishop" =>
        /\ Range(query.queen.moves)
            = Range(query.bishop.moves) \cup OrthogonalQuiet(query.row, query.col)
        /\ Range(query.queen.capture_moves)
            = Range(query.bishop.capture_moves)
                \cup OrthogonalCaptures(query.row, query.col, query.color)

\* Both generators were called on a square from which the bishop has moves
\* and captures and the queen has more of each.
C31_Witness ==
    /\ query.call = "queen_and_bishop"
    /\ query.bishop.moves # <<>> /\ query.bishop.capture_moves # <<>>
    /\ Len(query.queen.moves) > Len(query.bishop.moves)
    /\ Len(query.queen.capture_moves) > Len(query.bishop.capture_moves)

\* The king of current_player stands selected on its home square.
HomeKingSelected ==
    LET row == IF current_player = "white" THEN 7 ELSE 0
    IN  /\ selected_square = <<row, 4>>
        /\ squares[row][4] # None
        /\ PieceName(squares[row][4]) = "king"

\* C32: can_castle(color, side) is false whenever the king of the color is
\* in check; while the player to move is in check no castling square is
\* among the valid_moves of its selected king, and no move committed by a
\* player in check moves the king two columns.
C32_NoCastlingOutOfCheck ==
    /\ [](\A color \in {"white", "black"}, side \in {"king", "queen"} :
            is_in_check(squares, has_moved, color)
                => ~can_castle(squares, has_moved, color, side))
    /\ []((HomeKingSelected /\ is_in_check(squares, has_moved, current_player))
            => \A i \in 1 .. Len(valid_moves) :
                    Abs(valid_moves[i][2] - selected_square[2]) < 2)
    /\ [][(/\ committed' > committed
           /\ is_in_check(squares, has_moved, current_player)
           /\ PieceName(last_move'.piece) = "king")
            => Abs(last_move'.to[2] - last_move'.from[2]) < 2]_vars

\* White is in check with king and king's rook unmoved at home and f1, g1
\* empty; the king is selected and has a move.
C32_Witness ==
    /\ current_player = "white"
    /\ HomeKingSelected
    /\ is_in_check(squares, has_moved, "white")
    /\ squares[7][7] = 32 /\ ~has_moved[29] /\ ~has_moved[32]
    /\ is_empty(squares, 7, 5) /\ is_empty(squares, 7, 6)
    /\ valid_moves # <<>>

\* The side whose turn it is by the moves committed: white at the start,
\* then the opponent of the side that moved last.
SideToMove ==
    IF last_move.piece = None THEN "white" ELSE OtherColor(PieceColor(last_move.piece))

\* The side to move is not in check and no piece of theirs is shown a
\* destination on selection.
Stalemated ==
    /\ ~is_in_check(squares, has_moved, SideToMove)
    /\ ~HasAcceptedMove(SideToMove)

\* C33: when the side to move is stalemated, get_game_state reports
\* 'playing' and the stalemated side is the current_player; handle_click
\* still processes clicks (a click on a piece of the player with nothing
\* selected selects it, with no destination shown); and no click commits a
\* move, changes the grid or changes current_player, so the stalemate lasts
\* through every later click.
C33_StalemateIsNotDetected ==
    /\ [](Stalemated => (/\ GameState.game_over = "playing"
                         /\ current_player = SideToMove
                         /\ ~mated))
    /\ []((selected_square # NoPosition /\ valid_moves # <<>>) => ~Stalemated)
    /\ [][(\/ committed' # committed
           \/ current_player' # current_player
           \/ squares' # squares) => ~Stalemated]_vars
    /\ [][(/\ selected_square = NoPosition
           /\ OwnPieceOn(clicked')
           /\ selected_square' # clicked') => ~Stalemated]_vars

\* After the stalemate a piece of the stalemated player was selected by a
\* click.
C33_Witness ==
    /\ Stalemated
    /\ ~on_line
    /\ selected_square # NoPosition
    /\ clicked = selected_square
    /\ valid_moves = <<>>

\* The pieces standing on the grid.
PiecesOnGrid == {squares[p[1]][p[2]] : p \in Positions} \ {None}

\* The squares of the grid that hold a piece.
OccupiedSquares == {p \in Positions : squares[p[1]][p[2]] # None}

JustCastled(color) ==
    /\ last_move.piece # None
    /\ PieceName(last_move.piece) = "king"
    /\ PieceColor(last_move.piece) = color
    /\ Abs(last_move.to[2] - last_move.from[2]) = 2

\* The selected king of the color is offered a square two columns away.
CastlingOffered(color) ==
    /\ OwnPieceOn(selected_square)
    /\ current_player = color
    /\ PieceName(squares[selected_square[1]][selected_square[2]]) = "king"
    /\ \E i \in 1 .. Len(valid_moves) : Abs(valid_moves[i][2] - selected_square[2]) = 2

====
